---------------------------- MODULE Spec2Model ----------------------------
(***************************************************************************)
(* Cas-Predictor: the parallel HMMER search (src/src/hmmer_search.py), the *)
(* tblout parser and the rule-based classifier (src/src/cas_typing.py).    *)
(*                                                                         *)
(* Text is modelled as tuples of one-character strings, so that split,     *)
(* startswith, strip, lower, substring search and float() are computed on  *)
(* characters as Python computes them.  A Python float is modelled as a    *)
(* record [k, s, n, e]: k = "fin" stands for s * n * 10^e (s in {-1,1},    *)
(* n a natural), k = "inf" for s * infinity and k = "nan" for NaN.         *)
(***************************************************************************)
EXTENDS Integers, Sequences, FiniteSets, TLC

-----------------------------------------------------------------------------
(* Bounds of the model *)

\* number of .hmm files in the model directory
NumModels == 3
\* number of lines of the parser's input in ParseSpec
MaxLines == 2

-----------------------------------------------------------------------------
(* Characters and text *)

\* the only element of a one-element set.  { F(x) : x \in {e} } hands F the
\* value of e, computed once, where F(e) would compute e at each use of it.
The(S) == CHOOSE x \in S : TRUE

Digits == <<"0", "1", "2", "3", "4", "5", "6", "7", "8", "9">>

UpperChars == <<"A", "B", "C", "D", "E", "F", "G", "H", "I", "J", "K", "L", "M",
                "N", "O", "P", "Q", "R", "S", "T", "U", "V", "W", "X", "Y", "Z">>

LowerChars == <<"a", "b", "c", "d", "e", "f", "g", "h", "i", "j", "k", "l", "m",
                "n", "o", "p", "q", "r", "s", "t", "u", "v", "w", "x", "y", "z">>

\* str.isspace for the characters that occur in a text file's lines
IsSpace(c) == c \in {" ", "\t", "\n", "\r"}

IsDigit(c) == \E i \in DOMAIN Digits : Digits[i] = c

DigitVal(c) == (CHOOSE i \in DOMAIN Digits : Digits[i] = c) - 1

UpperSet == {UpperChars[i] : i \in DOMAIN UpperChars}

ToLower == [c \in UpperSet |-> LowerChars[CHOOSE i \in DOMAIN UpperChars : UpperChars[i] = c]]

LowerChar(c) == IF c \in UpperSet THEN ToLower[c] ELSE c

\* str.lower
Lower(s) == [i \in DOMAIN s |-> LowerChar(s[i])]

\* str.startswith
StartsWith(s, p) == Len(s) >= Len(p) /\ SubSeq(s, 1, Len(p)) = p

\* the text from position i on
Drop(s, i) == SubSeq(s, i, Len(s))

\* needle in haystack (Python's substring test)
Contains(hay, needle) ==
  \E h \in {hay}, n \in {needle} :
    \E i \in 1..(Len(h) - Len(n) + 1) : SubSeq(h, i, i + Len(n) - 1) = n

RECURSIVE LStrip(_)
LStrip(s) ==
  IF s # <<>> /\ IsSpace(Head(s)) THEN LStrip(Tail(s)) ELSE s

RECURSIVE RStrip(_)
RStrip(s) ==
  IF s # <<>> /\ IsSpace(s[Len(s)]) THEN RStrip(SubSeq(s, 1, Len(s) - 1)) ELSE s

\* str.strip
Strip(s) == RStrip(LStrip(s))

\* the length of the leading run of non-whitespace characters of s
RECURSIVE WordLen(_)
WordLen(s) ==
  IF s = <<>> \/ IsSpace(Head(s)) THEN 0 ELSE 1 + WordLen(Tail(s))

\* str.split(None, maxsplit): split on runs of whitespace, at most maxsplit
\* times; what is left after the last split is one more part, kept as it is
RECURSIVE SplitWs(_, _)
SplitStripped(t, maxsplit) ==
  IF t = <<>> THEN <<>>
  ELSE IF maxsplit = 0 THEN <<t>>
  ELSE <<SubSeq(t, 1, WordLen(t))>> \o SplitWs(Drop(t, WordLen(t) + 1), maxsplit - 1)

SplitWs(s, maxsplit) == The({SplitStripped(t, maxsplit) : t \in {LStrip(s)}})

\* str.replace(old, ""): every occurrence of old removed, left to right
RECURSIVE Remove(_, _)
Remove(s, old) ==
  IF s = <<>> THEN <<>>
  ELSE IF StartsWith(s, old) THEN Remove(Drop(s, Len(old) + 1), old)
  ELSE <<Head(s)>> \o Remove(Tail(s), old)

RECURSIVE Join(_, _)
Join(parts, sep) ==
  IF parts = <<>> THEN <<>>
  ELSE IF Len(parts) = 1 THEN parts[1]
  ELSE parts[1] \o sep \o Join(Tail(parts), sep)

-----------------------------------------------------------------------------
(* Python floats *)

Fin(s, n, e) == [k |-> "fin", s |-> s, n |-> n, e |-> e]
Inf(s) == [k |-> "inf", s |-> s, n |-> 0, e |-> 0]
NaN == [k |-> "nan", s |-> 1, n |-> 0, e |-> 0]
\* what float() raises on text that is no number
ValueError == [k |-> "ValueError", s |-> 1, n |-> 0, e |-> 0]

RECURSIVE NatOf(_)
NatOf(s) == IF s = <<>> THEN 0 ELSE NatOf(SubSeq(s, 1, Len(s) - 1)) * 10 + DigitVal(s[Len(s)])

RECURSIVE NumDigits(_)
NumDigits(n) == IF n < 10 THEN 1 ELSE 1 + NumDigits(n \div 10)

RECURSIVE Pow10(_)
Pow10(i) == IF i = 0 THEN 1 ELSE 10 * Pow10(i - 1)

AllDigits(s) == \A i \in DOMAIN s : IsDigit(s[i])

\* the decimal order of magnitude of a finite non-zero float: x = d.ddd * 10^Mag
Mag(x) == x.e + NumDigits(x.n) - 1

\* the finite float s * n * 10^e with the trailing zeros of n moved into e, so
\* that equal numbers are equal records
RECURSIVE Normal(_, _, _)
Normal(s, n, e) ==
  IF n # 0 /\ n % 10 = 0 THEN Normal(s, n \div 10, e + 1) ELSE Fin(s, n, e)

\* the first position of character c in s, 0 when there is none
FirstIndex(s, c) ==
  IF \E i \in DOMAIN s : s[i] = c
  THEN CHOOSE i \in DOMAIN s : s[i] = c /\ \A j \in 1..(i - 1) : s[j] # c
  ELSE 0

\* text cut at the first character c: what is before it, what is after it,
\* and whether c is there at all
Cut(s, c) ==
  The({[found |-> i # 0,
        before |-> IF i = 0 THEN s ELSE SubSeq(s, 1, i - 1),
        after |-> IF i = 0 THEN <<>> ELSE Drop(s, i + 1)] : i \in {FirstIndex(s, c)}})

\* an optional sign taken off a text: the sign and the rest
Unsigned(s) ==
  [sgn |-> IF s # <<>> /\ Head(s) = "-" THEN -1 ELSE 1,
   rest |-> IF s # <<>> /\ Head(s) \in {"+", "-"} THEN Tail(s) ELSE s]

\* the float of sign sgn with the digits intPart.fracPart and the exponent
\* expo: a magnitude beyond the range of a double overflows to infinity or
\* underflows to zero
FloatOfDigits(sgn, intPart, fracPart, expo) ==
  LET n == NatOf(intPart \o fracPart)
      x == Normal(sgn, n, expo.sgn * NatOf(expo.rest) - Len(fracPart))
  IN IF n = 0 THEN Fin(sgn, 0, 0)
     ELSE IF Mag(x) > 308 THEN Inf(sgn)
     ELSE IF Mag(x) < -324 THEN Fin(sgn, 0, 0)
     ELSE x

\* the float of sign sgn written as mantissa m (cut at its point) and exponent
\* part e (cut from the mantissa at the letter e)
FloatOfParts(sgn, m, hasExp, expo) ==
  IF /\ AllDigits(m.before) /\ AllDigits(m.after)
     /\ m.before \o m.after # <<>>
     /\ hasExp => (expo.rest # <<>> /\ AllDigits(expo.rest))
  THEN FloatOfDigits(sgn, m.before, m.after, expo)
  ELSE ValueError

FloatOfBody(sgn, body) ==
  IF body \in {<<"i", "n", "f">>, <<"i", "n", "f", "i", "n", "i", "t", "y">>} THEN Inf(sgn)
  ELSE IF body = <<"n", "a", "n">> THEN NaN
  ELSE The({The({FloatOfParts(sgn, m, c.found, expo) :
                   m \in {Cut(c.before, ".")}, expo \in {Unsigned(c.after)}}) :
            c \in {Cut(body, "e")}})

\* float(text) for the decimal grammar [sign] digits [. digits] [e [sign] digits],
\* inf, infinity and nan (any case).  Digit separators (1_0) are not modelled.
ParseFloat(text) ==
  The({The({FloatOfBody(u.sgn, body) : body \in {Lower(u.rest)}}) :
       u \in {Unsigned(Strip(text))}})

\* the sign of a float that is not NaN: -1, 0 or 1
Sign(x) == IF x.k = "fin" /\ x.n = 0 THEN 0 ELSE x.s

\* a < b for finite positive a and b, by magnitude and then by mantissa with
\* the digits aligned (the numbers themselves may exceed the integers of TLC)
PosLess(a, b) ==
  IF Mag(a) # Mag(b) THEN Mag(a) < Mag(b)
  ELSE LET da == NumDigits(a.n)
           db == NumDigits(b.n)
           w == IF da > db THEN da ELSE db
       IN a.n * Pow10(w - da) < b.n * Pow10(w - db)

\* a < b on floats without NaN
Less(a, b) ==
  IF Sign(a) # Sign(b) THEN Sign(a) < Sign(b)
  ELSE IF Sign(a) = 0 THEN FALSE
  ELSE IF Sign(a) = 1
       THEN IF a.k = "inf" THEN FALSE ELSE IF b.k = "inf" THEN TRUE ELSE PosLess(a, b)
       ELSE IF b.k = "inf" THEN FALSE ELSE IF a.k = "inf" THEN TRUE ELSE PosLess(b, a)

\* Python's a <= b: False whenever an operand is NaN
FloatLeq(a, b) == a.k # "nan" /\ b.k # "nan" /\ ~Less(b, a)

\* Python's a > b: False whenever an operand is NaN
FloatGt(a, b) == a.k # "nan" /\ b.k # "nan" /\ Less(b, a)

-----------------------------------------------------------------------------
(* HMMERSearch.parse_results *)

\* line.split(None, 22)
MaxSplit == 22
\* if len(parts) < 9: continue
MinFields == 9

HitRecord(query_name, target_name, e_value, score, hmm_model) ==
  [query_name |-> query_name, target_name |-> target_name, e_value |-> e_value,
   score |-> score, hmm_model |-> hmm_model]

\* float(parts[4]), float('inf') on ValueError
EValueOf(text) ==
  LET v == ParseFloat(text) IN IF v = ValueError THEN Inf(1) ELSE v

\* float(parts[5]), 0.0 on ValueError
ScoreOf(text) ==
  LET v == ParseFloat(text) IN IF v = ValueError THEN Fin(1, 0, 0) ELSE v

\* whether the loop body skips the line before it reaches the split
IsSkipped(line) == StartsWith(line, <<"#">>) \/ Strip(line) = <<>>

\* RecordOf taking the target name from the accession column beside it
RecordOfAccession(parts, hmm_name) ==
  HitRecord(parts[1],
            IF parts[2] = <<"-">> THEN hmm_name ELSE parts[2],
            EValueOf(parts[5]),
            ScoreOf(parts[6]),
            hmm_name)

\* the record of a line split into its parts
RecordOf(parts, hmm_name) ==
  HitRecord(parts[1],
            IF parts[3] = <<"-">> THEN hmm_name ELSE parts[3],
            EValueOf(parts[5]),
            ScoreOf(parts[6]),
            hmm_name)

\* what the loop body appends for a line that was split
Append9(parts, hmm_name) ==
  IF Len(parts) < MinFields THEN <<>> ELSE <<RecordOf(parts, hmm_name)>>

\* ParseLine asking for more than MinFields fields
ParseLineOffByOne(line, hmm_name) ==
  IF IsSkipped(line) THEN <<>>
  ELSE The({IF Len(parts) <= MinFields THEN <<>> ELSE <<RecordOf(parts, hmm_name)>> :
            parts \in {SplitWs(line, MaxSplit)}})

\* one iteration of the loop over the output lines: the records it appends.
\* Nothing between the split and the append can raise (the two float() calls
\* have their own handlers), so the outer handler never runs.
ParseLine(line, hmm_name) ==
  IF IsSkipped(line) THEN <<>>
  ELSE The({Append9(parts, hmm_name) : parts \in {SplitWs(line, MaxSplit)}})

RECURSIVE parse_results(_, _)
parse_results(hmmer_output, hmm_name) ==
  IF hmmer_output = <<>> THEN <<>>
  ELSE ParseLine(Head(hmmer_output), hmm_name) \o parse_results(Tail(hmmer_output), hmm_name)

-----------------------------------------------------------------------------
(* CASTyping *)

default_mapping == <<
    [key |-> <<"c", "a", "s", "3">>, type |-> "Type I (Cas3)"],
    [key |-> <<"c", "a", "s", "8">>, type |-> "Type I"],
    [key |-> <<"c", "a", "s", "5">>, type |-> "Type I"],
    [key |-> <<"c", "a", "s", "6">>, type |-> "Type I"],
    [key |-> <<"c", "a", "s", "7">>, type |-> "Type I"],
    [key |-> <<"c", "s", "e", "1">>, type |-> "Type I-E"],
    [key |-> <<"c", "s", "e", "2">>, type |-> "Type I-E"],
    [key |-> <<"c", "s", "y", "1">>, type |-> "Type I-F"],
    [key |-> <<"c", "s", "y", "2">>, type |-> "Type I-F"],
    [key |-> <<"c", "s", "y", "3">>, type |-> "Type I-F"],
    [key |-> <<"c", "s", "a", "5">>, type |-> "Type I-A"],
    [key |-> <<"c", "s", "m">>, type |-> "Type III-A"],
    [key |-> <<"c", "a", "s", "9">>, type |-> "Type II (Cas9)"],
    [key |-> <<"c", "s", "n", "2">>, type |-> "Type II-A"],
    [key |-> <<"c", "a", "s", "1", "0">>, type |-> "Type III (Cas10)"],
    [key |-> <<"c", "m", "r">>, type |-> "Type III-B"],
    [key |-> <<"c", "s", "x">>, type |-> "Type III"],
    [key |-> <<"c", "s", "f">>, type |-> "Type IV"],
    [key |-> <<"c", "a", "s", "1", "2">>, type |-> "Type V (Cas12)"],
    [key |-> <<"c", "a", "s", "1", "2", "a">>, type |-> "Type V-A"],
    [key |-> <<"c", "a", "s", "1", "2", "b">>, type |-> "Type V-B"],
    [key |-> <<"c", "a", "s", "1", "2", "c">>, type |-> "Type V-C"],
    [key |-> <<"c", "a", "s", "1", "3">>, type |-> "Type VI (Cas13)"],
    [key |-> <<"c", "a", "s", "1", "3", "a">>, type |-> "Type VI-A"],
    [key |-> <<"c", "a", "s", "1", "3", "b">>, type |-> "Type VI-B"],
    [key |-> <<"c", "a", "s", "1", "3", "c">>, type |-> "Type VI-C"],
    [key |-> <<"c", "a", "s", "1", "3", "d">>, type |-> "Type VI-D"],
    [key |-> <<"c", "a", "s", "1">>, type |-> "Adaptation"],
    [key |-> <<"c", "a", "s", "2">>, type |-> "Adaptation"],
    [key |-> <<"c", "a", "s", "4">>, type |-> "Adaptation"],
    [key |-> <<"d", "i", "n", "G">>, type |-> "Adaptation"]
  >>

\* a cas_types.json: whether the path is given and exists, whether json.load
\* succeeds, and the mapping it holds, in the file's key order
TypesFile(exists, valid, mapping) == [exists |-> exists, valid |-> valid, mapping |-> mapping]

_load_cas_type_mapping(cas_types_file) ==
  IF cas_types_file.exists /\ cas_types_file.valid
  THEN cas_types_file.mapping
  ELSE default_mapping

HighThreshold == Fin(1, 1, -10)
MediumThreshold == Fin(1, 1, -5)

\* the thresholds compared with < where the code has <=
ConfidenceStrict(e_value) ==
  IF FloatLeq(e_value, HighThreshold) /\ e_value # HighThreshold THEN "High"
  ELSE IF FloatLeq(e_value, MediumThreshold) /\ e_value # MediumThreshold THEN "Medium"
  ELSE "Low"

Confidence(e_value) ==
  IF FloatLeq(e_value, HighThreshold) THEN "High"
  ELSE IF FloatLeq(e_value, MediumThreshold) THEN "Medium"
  ELSE "Low"

\* 1000 * log10(d) for a leading digit d, rounded to the nearest integer
Log10Milli == <<0, 301, 477, 602, 699, 778, 845, 903, 954>>

\* 1000 * math.log10(x) for a finite positive x, the mantissa taken to its
\* first significant digit
Log10MilliOf(x) ==
  Mag(x) * 1000 + Log10Milli[x.n \div Pow10(NumDigits(x.n) - 1)]

\* a probability score: thousandths of a point, or minus infinity
Prob(milli) == [ninf |-> FALSE, milli |-> milli]
ProbNegInf == [ninf |-> TRUE, milli |-> 0]

\* min(100, -10 * math.log10(e_value)) if e_value > 0 else 100
ProbScore(e_value) ==
  IF FloatGt(e_value, Fin(1, 0, 0))
  THEN IF e_value.k = "inf" THEN ProbNegInf
       ELSE LET p == (-10) * Log10MilliOf(e_value) IN
            IF p < 100000 THEN Prob(p) ELSE Prob(100000)
  ELSE Prob(100000)

\* the scan without its break: the last matching key decides
RECURSIVE CasTypeLast(_, _)
CasTypeLast(mapping, hmm_model) ==
  IF mapping = <<>> THEN "Unknown"
  ELSE IF Contains(Lower(hmm_model), Lower(mapping[Len(mapping)].key))
       THEN mapping[Len(mapping)].type
  ELSE CasTypeLast(SubSeq(mapping, 1, Len(mapping) - 1), hmm_model)

\* the scan of the mapping in its order, the first matching key deciding
RECURSIVE CasType(_, _)
CasType(mapping, hmm_model) ==
  IF mapping = <<>> THEN "Unknown"
  ELSE IF Contains(Lower(hmm_model), Lower(Head(mapping).key)) THEN Head(mapping).type
  ELSE CasType(Tail(mapping), hmm_model)

\* the body of the loop over the identified proteins: the entry it stores
\* under protein_id
ClassifyOne(protein, mapping) ==
  The({[protein_id |-> protein.query_name,
        type |-> CasType(mapping, hmm_model),
        confidence |-> Confidence(protein.e_value),
        e_value |-> protein.e_value,
        score |-> protein.score,
        probability |-> ProbScore(protein.e_value),
        hmm_model |-> hmm_model] : hmm_model \in {Lower(protein.target_name)}})

\* classified_results[protein_id] = result on a dict in insertion order: an
\* entry of that key is replaced where it stands, a new key is appended
DictSet(d, entry) ==
  IF \E i \in DOMAIN d : d[i].protein_id = entry.protein_id
  THEN [i \in DOMAIN d |-> IF d[i].protein_id = entry.protein_id THEN entry ELSE d[i]]
  ELSE Append(d, entry)

RECURSIVE ClassifyInto(_, _, _)
ClassifyInto(d, proteins, mapping) ==
  IF proteins = <<>> THEN d
  ELSE The({The({ClassifyInto(d2, Tail(proteins), mapping) : d2 \in {DictSet(d, result)}}) :
            result \in {ClassifyOne(Head(proteins), mapping)}})

classify_proteins(identified_proteins, mapping) ==
  The({ClassifyInto(<<>>, proteins, mp) : proteins \in {identified_proteins}, mp \in {mapping}})


-----------------------------------------------------------------------------
(* Inputs: the model directory, the external hmmsearch, the mapping files *)

T_hmm == <<".", "h", "m", "m">>
T_dash == <<"-">>
T_nl == <<"\n">>
T_sp == <<" ">>

\* file names the model directory may hold; the first NumModels are present
AllHmmFiles == <<<<"c", "a", "s", "9", ".", "h", "m", "m">>, <<"c", "a", "s", "3", ".", "h", "m", "m">>, <<"C", "a", "s", "1", "2", "a", ".", "h", "m", "m">>, <<"c", "s", "m", ".", "h", "m", "m">>, <<"x", ".", "h", "m", "m">>>>

hmm_model_dir == <<"m", "o", "d", "e", "l", "s">>

\* os.listdir(hmm_model_dir)
DirListing == <<<<"R", "E", "A", "D", "M", "E">>>> \o [i \in 1..NumModels |-> AllHmmFiles[i]]

\* str.endswith
EndsWith(s, p) == Len(s) >= Len(p) /\ SubSeq(s, Len(s) - Len(p) + 1, Len(s)) = p

\* os.path.join
PathJoin(d, f) == d \o <<"/">> \o f

\* os.path.basename
RECURSIVE Basename(_)
Basename(p) ==
  IF p = <<>> \/ p[Len(p)] = "/" THEN <<>>
  ELSE Basename(SubSeq(p, 1, Len(p) - 1)) \o <<p[Len(p)]>>

IsHmm(f) == EndsWith(f, T_hmm)

\* self.hmm_files of HMMERSearch.__init__
hmm_files == [i \in DOMAIN SelectSeq(DirListing, IsHmm) |->
                PathJoin(hmm_model_dir, SelectSeq(DirListing, IsHmm)[i])]

\* the tasks of a search: one per model file, by its position in hmm_files
Tasks == DOMAIN hmm_files

\* os.path.basename(hmm_file).replace('.hmm', '')
HmmName(hmm_file) == Remove(Basename(hmm_file), T_hmm)

\* search's future_to_hmm: the model name kept with each task's future
future_to_hmm == [m \in Tasks |-> HmmName(hmm_files[m])]

\* --threads
NumThreads == 2

\* max_workers = min(self.num_threads, len(self.hmm_files))
max_workers == IF NumThreads < Len(hmm_files) THEN NumThreads ELSE Len(hmm_files)

\* a tblout data line: nine fields separated by sep, ended by a newline
HitLine(q, t, ev, sc, sep) ==
  Join(<<q, T_dash, t, T_dash, ev, sc, <<"0">>, <<"0">>, <<"0">> >>, sep) \o T_nl

CommentLine == <<"#", " ", "t", "a", "r", "g", "e", "t", " ", "n", "a", "m", "e", " ", " ", "a", "c", "c", "e", "s", "s", "i", "o", "n">> \o T_nl

\* eight fields: one too few
ShortLine == <<"p", "A", " ", "-", " ", "c", "a", "s", "9", "_", "h", "m", "m", " ", "-", " ", "1", "e", "-", "1", "2", " ", "2", "5", "0", ".", "3", " ", "0", " ", "0">> \o T_nl

\* what hmmsearch writes to --tblout for each model when it succeeds
TblOut == <<
    <<CommentLine,
      HitLine(<<"p", "A">>, T_dash, <<"1", "e", "-", "1", "2">>, <<"2", "5", "0", ".", "3">>, T_sp),
      ShortLine,
      HitLine(<<"p", "B">>, <<"C", "a", "s", "3", "_", "C", "a", "s", "9", "_", "f", "u", "s", "i", "o", "n">>, <<"1", "e", "-", "7">>, <<"1", "0">>, T_sp)>>,
    <<HitLine(<<"p", "A">>, T_dash, <<"5">>, <<"3", ".", "1">>, T_sp),
      HitLine(<<"p", "C">>, <<"c", "a", "s", "9", "_", "h", "m", "m">>, <<"0">>, <<"9">>, T_sp),
      HitLine(<<"p", "A">>, <<"x", "y", "z">>, <<"a", "b", "c">>, <<"a", "b", "c">>, T_sp)>>,
    <<HitLine(<<"p", "B">>, T_dash, <<"1", "e", "-", "1", "0">>, <<"1">>, T_sp)>>,
    <<CommentLine>>
  >>

Output(m) == IF m \in DOMAIN TblOut THEN TblOut[m] ELSE <<>>

\* how the run_hmmer call for each model fails, when it fails (the kinds are
\* those of run_hmmer below); every model may also succeed
FailureOf == <<"undecodable", "oserror", "nonzero", "mktemp", "no_output">>

Failure(m) == FailureOf[((m - 1) % Len(FailureOf)) + 1]

\* the mapping files a run may be given
CustomMappings == {
    <<[key |-> <<"c", "a", "s", "3">>, type |-> "Type I (Cas3)"], [key |-> <<"c", "a", "s", "9">>, type |-> "Type II (Cas9)"]>>,
    <<[key |-> <<"C", "a", "s", "9">>, type |-> "Type II (Cas9)"], [key |-> <<"c", "a", "s", "3">>, type |-> "Type I (Cas3)"]>>
  }

TypesFiles ==
  {TypesFile(FALSE, FALSE, <<>>), TypesFile(TRUE, FALSE, <<>>)}
  \cup {TypesFile(TRUE, TRUE, mp) : mp \in CustomMappings}

-----------------------------------------------------------------------------
(* HMMERSearch.run_hmmer and HMMERSearch.search *)

VARIABLES
  pc,              \* where the caller of search stands
  fasta_exists,    \* os.path.exists(fasta_file)
  status,          \* per task: "none", "queued", "running" or "done"
  ending,          \* per task: how its run_hmmer call ended ("" while it has not)
  ret,             \* per task: what its future holds
  tmpfiles,        \* the tasks whose temporary output file exists
  completion,      \* the tasks in the order their futures were resolved
  initially_done,  \* as_completed: the futures found finished when it was called
  finished_q,      \* as_completed: the waiter's finished_futures, not yet yielded
  collected,       \* the tasks in the order the loop over as_completed got them
  results,         \* search's list of hit records
  cas_type_mapping,\* CASTyping.cas_type_mapping
  predictions,     \* the dict classify_proteins returns, as its items in order
  hmmer_output,    \* ParseSpec: the lines handed to parse_results
  main             \* MainSpec: how far main got and how it ended

vars == <<pc, fasta_exists, status, ending, ret, tmpfiles, completion,
          initially_done, finished_q, collected, results, cas_type_mapping,
          predictions, hmmer_output, main>>

\* what a future holds: nothing yet, a returned list of lines, or an exception
Unresolved == [state |-> "pending", lines |-> <<>>]
Returned(lines) == [state |-> "returned", lines |-> lines]
Raised == [state |-> "raised", lines |-> <<>>]

Range(s) == {s[i] : i \in DOMAIN s}

\* main before it has done anything: the model directory not looked at, no
\* mapping file read, no exception at its handler, no output file, no exit
\* status (the status is <<0>> or <<1>> once main has returned)
NoMain == [dir |-> "", json |-> "", raised |-> "", output_written |-> FALSE,
           exit |-> <<>>]

Init ==
  /\ pc = "init"
  /\ fasta_exists \in BOOLEAN
  /\ status = [m \in Tasks |-> "none"]
  /\ ending = [m \in Tasks |-> ""]
  /\ ret = [m \in Tasks |-> Unresolved]
  /\ tmpfiles = {}
  /\ completion = <<>>
  /\ initially_done = {}
  /\ finished_q = <<>>
  /\ collected = <<>>
  /\ results = <<>>
  /\ cas_type_mapping = <<>>
  /\ predictions = <<>>
  /\ hmmer_output = <<>>
  /\ main = NoMain

\* search up to the end of the submit loop: FileNotFoundError without the
\* input file, else one task submitted per model file
SearchSubmit ==
  /\ pc = "init"
  /\ IF fasta_exists
     THEN /\ pc' = "submitted"
          /\ status' = [m \in Tasks |-> "queued"]
     ELSE /\ pc' = "raised"
          /\ UNCHANGED status
  /\ UNCHANGED <<fasta_exists, ending, ret, tmpfiles, completion, initially_done,
                 finished_q, collected, results, cas_type_mapping, predictions,
                 hmmer_output, main>>

\* what run_hmmer returns, or that it raises, for each way it can end:
\*   ok           hmmsearch exits 0 and the output file is read
\*   no_output    hmmsearch exits 0 and the output file is not there
\*   nonzero      CalledProcessError, its stdout and stderr decoded and logged
\*   undecodable  CalledProcessError whose stdout or stderr is not UTF-8: the
\*                decode inside the handler raises, and no handler is left
\*   oserror      any other exception inside the try (hmmsearch not found, the
\*                output file unreadable)
\*   mktemp       NamedTemporaryFile itself raised
run_hmmer(how, output) ==
  IF how = "ok" THEN Returned(output)
  ELSE IF how = "undecodable" THEN Raised
  ELSE Returned(<<>>)

\* whether run_hmmer reaches os.unlink(temp_output_path)
Unlinks(how) == how = "ok"

\* whether the temporary file is gone when run_hmmer ends: it was unlinked,
\* or it was found missing after hmmsearch
FileGone(how) == Unlinks(how) \/ how = "no_output"

\* the future of task m is resolved: it joins the waiter's list once
\* as_completed has installed the waiter
Resolve(m, how, r) ==
  /\ status' = [status EXCEPT ![m] = "done"]
  /\ ending' = [ending EXCEPT ![m] = how]
  /\ ret' = [ret EXCEPT ![m] = r]
  /\ completion' = Append(completion, m)
  /\ finished_q' = IF pc = "collecting" THEN Append(finished_q, m) ELSE finished_q

Running == {m \in Tasks : status[m] = "running"}
Queued == {m \in Tasks : status[m] = "queued"}

\* a free worker process takes the oldest queued task and runs run_hmmer up to
\* the hmmsearch invocation: the temporary file is created, or its creation
\* fails and the task is over
StartTask(m) ==
  /\ pc \in {"submitted", "collecting"}
  /\ status[m] = "queued"
  /\ \A k \in Queued : m <= k
  /\ Cardinality(Running) < max_workers
  /\ \/ /\ status' = [status EXCEPT ![m] = "running"]
        /\ tmpfiles' = tmpfiles \cup {m}
        /\ UNCHANGED <<ending, ret, completion, finished_q>>
     \/ /\ Failure(m) = "mktemp"
        /\ Resolve(m, "mktemp", run_hmmer("mktemp", <<>>))
        /\ UNCHANGED tmpfiles
  /\ UNCHANGED <<pc, fasta_exists, initially_done, collected, results,
                 cas_type_mapping, predictions, hmmer_output, main>>

\* hmmsearch terminates and run_hmmer runs to its end
FinishTask(m) ==
  /\ status[m] = "running"
  /\ \E how \in {"ok", Failure(m)} \ {"mktemp"} :
       /\ Resolve(m, how, run_hmmer(how, Output(m)))
       /\ tmpfiles' = IF FileGone(how) THEN tmpfiles \ {m} ELSE tmpfiles
  /\ UNCHANGED <<pc, fasta_exists, initially_done, collected, results,
                 cas_type_mapping, predictions, hmmer_output, main>>

\* as_completed(future_to_hmm) is called: the futures already finished are
\* set aside (a set: they will be yielded in no particular order), a waiter
\* is installed for the others
AsCompleted ==
  /\ pc = "submitted"
  /\ pc' = "collecting"
  /\ initially_done' = {m \in Tasks : status[m] = "done"}
  /\ UNCHANGED <<fasta_exists, status, ending, ret, tmpfiles, completion, finished_q,
                 collected, results, cas_type_mapping, predictions, hmmer_output, main>>

\* the futures as_completed may yield next: any of those found finished at the
\* call, and after them the waiter's futures, oldest first
Yieldable ==
  IF initially_done \ Range(collected) # {}
  THEN initially_done \ Range(collected)
  ELSE IF finished_q # <<>> THEN {Head(finished_q)} ELSE {}

\* Gather without the handler of the loop: what the task raised leaves search
GatherNoCatch(res, r, hmm_name) ==
  IF r.state = "raised" THEN [results |-> res, raises |-> TRUE]
  ELSE IF r.lines # <<>>
  THEN [results |-> res \o parse_results(r.lines, hmm_name), raises |-> FALSE]
  ELSE [results |-> res, raises |-> FALSE]

\* Gather putting a task's records in front of the earlier ones
GatherPrepend(res, r, hmm_name) ==
  IF r.state = "returned" /\ r.lines # <<>>
  THEN [results |-> parse_results(r.lines, hmm_name) \o res, raises |-> FALSE]
  ELSE [results |-> res, raises |-> FALSE]

\* the body of the loop for one future: the results after it, and whether an
\* exception leaves the loop.  future.result() re-raises what the task raised;
\* the handler of the loop catches it, as it would an exception of
\* parse_results.
Gather(res, r, hmm_name) ==
  IF r.state = "returned" /\ r.lines # <<>>
  THEN [results |-> res \o parse_results(r.lines, hmm_name), raises |-> FALSE]
  ELSE [results |-> res, raises |-> FALSE]

Collect(m) ==
  /\ pc = "collecting"
  /\ m \in Yieldable
  /\ LET g == Gather(results, ret[m], future_to_hmm[m]) IN
       /\ results' = g.results
       /\ pc' = IF g.raises THEN "raised" ELSE pc
  /\ collected' = Append(collected, m)
  /\ finished_q' = IF m \in initially_done THEN finished_q ELSE Tail(finished_q)
  /\ UNCHANGED <<fasta_exists, status, ending, ret, tmpfiles, completion,
                 initially_done, cas_type_mapping, predictions, hmmer_output, main>>

\* the loop left after the first future
ExhaustedEarly == collected # <<>>

\* as_completed is exhausted: every future was yielded
Exhausted == Range(collected) = Tasks

\* the loop ends, the executor shuts down and search returns results
SearchReturn ==
  /\ pc = "collecting"
  /\ Exhausted
  /\ pc' = "returned"
  /\ UNCHANGED <<fasta_exists, status, ending, ret, tmpfiles, completion,
                 initially_done, finished_q, collected, results, cas_type_mapping,
                 predictions, hmmer_output, main>>

\* main: CASTyping(potential_proteins, cas_types_file).classify_proteins()
Classify ==
  /\ pc = "returned"
  /\ \E f \in TypesFiles :
       /\ cas_type_mapping' = _load_cas_type_mapping(f)
       /\ predictions' = classify_proteins(results, cas_type_mapping')
  /\ pc' = "classified"
  /\ UNCHANGED <<fasta_exists, status, ending, ret, tmpfiles, completion,
                 initially_done, finished_q, collected, results, hmmer_output, main>>

\* the steps of search and of the worker processes
SearchNext ==
  \/ SearchSubmit
  \/ \E m \in Tasks : StartTask(m)
  \/ \E m \in Tasks : FinishTask(m)
  \/ AsCompleted
  \/ \E m \in Tasks : Collect(m)
  \/ SearchReturn

Next == SearchNext \/ Classify

Spec == Init /\ [][Next]_vars

\* the worker processes and the caller keep running, and every hmmsearch
\* terminates: while a step of the search can be taken, one is taken
FairSpec == Spec /\ WF_vars(SearchNext)

-----------------------------------------------------------------------------
(* parse_results and classify_proteins on their own, over a range of lines *)

\* texts for field 4 (the e-value) of a data line
EValueTexts == {<<"1", "e", "-", "1", "2">>, <<"1", "e", "-", "1", "0">>, <<"2", "e", "-", "1", "0">>, <<"1", "e", "-", "5">>, <<"2", "e", "-", "5">>, <<"0">>, <<"1">>, <<"5">>,
                <<"-", "1">>, <<"i", "n", "f">>, <<"n", "a", "n">>, <<"a", "b", "c">>}

\* a comment marker after leading whitespace, followed by eight more fields
IndentedHash == <<" ", "#", " ", "1", " ", "2", " ", "3", " ", "4", " ", "5", " ", "6", " ", "7", " ", "8">> \o T_nl

\* a data line of more fields than split(None, 22) separates
LongLine ==
  Join(<<<<"p", "L">>, T_dash, <<"c", "m", "r", "_", "h", "m", "m">>, T_dash, <<"3", "e", "-", "7">>, <<"4", "2">>>>
       \o [i \in 1..20 |-> <<"0">>], T_sp) \o T_nl

\* the row protA - cas9_hmm - 1e-12 250.3 0 0 0
ExampleRow ==
  HitLine(<<"p", "r", "o", "t", "A">>, <<"c", "a", "s", "9", "_", "h", "m", "m">>,
          <<"1", "e", "-", "1", "2">>, <<"2", "5", "0", ".", "3">>, T_sp)

ParseLines ==
  {CommentLine, T_nl, <<" ", "\t">> \o T_nl, ShortLine, IndentedHash, LongLine, ExampleRow,
   HitLine(<<"p", "T">>, <<"c", "a", "s", "9", "_", "h", "m", "m">>, <<"1", "e", "-", "6">>, <<"7", ".", "5">>, <<"\t", " ">>)}
  \cup {HitLine(<<"p", "A">>, <<"c", "a", "s", "9", "_", "h", "m", "m">>, ev, <<"2", "5", "0", ".", "3">>, T_sp) : ev \in EValueTexts}
  \cup {HitLine(<<"p", "B">>, tn, <<"1", "e", "-", "1", "2">>, <<"a", "b", "c">>, T_sp) : tn \in {T_dash, <<"C", "a", "s", "3", "_", "C", "a", "s", "9", "_", "f", "u", "s", "i", "o", "n">>, <<"x", "y", "z">>}}

\* the lists of at most MaxLines lines
LineLists == UNION {[1..n -> ParseLines] : n \in 0..MaxLines}

\* the model the lines are parsed for
ParseHmmName == <<"c", "a", "s", "3">>

ParseInit ==
  /\ pc = "parse"
  /\ fasta_exists = TRUE
  /\ status = [m \in Tasks |-> "none"]
  /\ ending = [m \in Tasks |-> ""]
  /\ ret = [m \in Tasks |-> Unresolved]
  /\ tmpfiles = {}
  /\ completion = <<>>
  /\ initially_done = {}
  /\ finished_q = <<>>
  /\ collected = <<>>
  /\ results = <<>>
  /\ cas_type_mapping = <<>>
  /\ predictions = <<>>
  /\ hmmer_output \in LineLists
  /\ main = NoMain

\* parse_results(hmmer_output, hmm_name)
Parse ==
  /\ pc = "parse"
  /\ results' = parse_results(hmmer_output, ParseHmmName)
  /\ pc' = "parsed"
  /\ UNCHANGED <<fasta_exists, status, ending, ret, tmpfiles, completion,
                 initially_done, finished_q, collected, cas_type_mapping,
                 predictions, hmmer_output, main>>

\* CASTyping(results, cas_types_file).classify_proteins()
ClassifyParsed ==
  /\ pc = "parsed"
  /\ \E f \in TypesFiles :
       /\ cas_type_mapping' = _load_cas_type_mapping(f)
       /\ predictions' = classify_proteins(results, cas_type_mapping')
  /\ pc' = "parse_classified"
  /\ UNCHANGED <<fasta_exists, status, ending, ret, tmpfiles, completion,
                 initially_done, finished_q, collected, results, hmmer_output, main>>

ParseNext == Parse \/ ClassifyParsed

ParseSpec == ParseInit /\ [][ParseNext]_vars

-----------------------------------------------------------------------------
(* main *)

\* what --hmm_dir may be: no such directory, a directory without model files,
\* the directory of the models
DirStates == {"missing", "no_models", "models"}

\* os.listdir(hmm_model_dir) of a directory that exists
ListingOf(d) == IF d = "models" THEN DirListing ELSE <<DirListing[1]>>

\* the exception HMMERSearch.__init__ raises, "" when it raises none
InitRaises(d) ==
  IF d = "missing" THEN "FileNotFoundError:hmm_dir"
  ELSE IF SelectSeq(ListingOf(d), IsHmm) = <<>> THEN "FileNotFoundError:no_models"
  ELSE ""

\* the mapping files main may be given: those of TypesFiles, whose JSON text
\* is an object when it is valid, and a file whose JSON text is the array []
MainTypesFiles ==
  {[file |-> f, top |-> "object"] : f \in TypesFiles}
  \cup {[file |-> TypesFile(TRUE, TRUE, <<>>), top |-> "array"]}

\* what json.load made of the mapping file, if it was read at all
JsonOf(t) ==
  IF ~t.file.exists THEN "absent"
  ELSE IF ~t.file.valid THEN "invalid"
  ELSE t.top

\* main returns: the exception its handler caught ("" when none), whether the
\* output file was written, the status returned
Exit(raised, written) ==
  [main EXCEPT !.raised = raised, !.output_written = written,
               !.exit = IF raised = "" THEN <<0>> ELSE <<1>>]

MainInit ==
  /\ pc = "main"
  /\ fasta_exists = FALSE
  /\ status = [m \in Tasks |-> "none"]
  /\ ending = [m \in Tasks |-> ""]
  /\ ret = [m \in Tasks |-> Unresolved]
  /\ tmpfiles = {}
  /\ completion = <<>>
  /\ initially_done = {}
  /\ finished_q = <<>>
  /\ collected = <<>>
  /\ results = <<>>
  /\ cas_type_mapping = <<>>
  /\ predictions = <<>>
  /\ hmmer_output = <<>>
  /\ main = NoMain

\* step 1 of main: the sequences are read (a file that does not parse gives
\* none), filtered and written to a temporary FASTA file; writing may raise
MainAnalyze ==
  /\ pc = "main"
  /\ \E written \in BOOLEAN :
       IF written
       THEN /\ fasta_exists' = TRUE
            /\ pc' = "construct"
            /\ UNCHANGED main
       ELSE /\ pc' = "exited"
            /\ main' = Exit("OSError:fasta", FALSE)
            /\ UNCHANGED fasta_exists
  /\ UNCHANGED <<status, ending, ret, tmpfiles, completion, initially_done,
                 finished_q, collected, results, cas_type_mapping, predictions,
                 hmmer_output>>

\* HMMERSearch(args.hmm_dir, ...): FileNotFoundError without the directory or
\* without a model file in it, caught by main's handler
MainConstruct ==
  /\ pc = "construct"
  /\ \E d \in DirStates :
       IF InitRaises(d) = ""
       THEN /\ pc' = "init"
            /\ main' = [main EXCEPT !.dir = d]
       ELSE /\ pc' = "exited"
            /\ main' = [Exit(InitRaises(d), FALSE) EXCEPT !.dir = d]
  /\ UNCHANGED <<fasta_exists, status, ending, ret, tmpfiles, completion,
                 initially_done, finished_q, collected, results, cas_type_mapping,
                 predictions, hmmer_output>>

\* step 3 of main: the mapping is loaded and the hits are classified.  The
\* loop over the hits calls cas_type_mapping.items(): with a mapping file
\* whose JSON is not an object that raises AttributeError for the first hit
MainClassify ==
  /\ pc = "returned"
  /\ \E t \in MainTypesFiles :
       /\ cas_type_mapping' = _load_cas_type_mapping(t.file)
       /\ IF JsonOf(t) = "array" /\ results # <<>>
          THEN /\ predictions' = <<>>
               /\ pc' = "exited"
               /\ main' = [Exit("AttributeError:items", FALSE) EXCEPT !.json = JsonOf(t)]
          ELSE /\ predictions' = classify_proteins(results, cas_type_mapping')
               /\ pc' = "classified"
               /\ main' = [main EXCEPT !.json = JsonOf(t)]
  /\ UNCHANGED <<fasta_exists, status, ending, ret, tmpfiles, completion,
                 initially_done, finished_q, collected, results, hmmer_output>>

\* how the rest of main can go: no report asked, a report written, the output
\* file not writable, the report file not writable
Finishes == {"no_report", "report", "output_unwritable", "report_unwritable"}

\* step 4 of main and its end: the output file is written, the report if one
\* is asked, and main returns 0; an exception on the way returns 1
MainFinish ==
  /\ pc = "classified"
  /\ \E how \in Finishes :
       main' = IF how = "output_unwritable" THEN Exit("OSError:output", FALSE)
               ELSE IF how = "report_unwritable" THEN Exit("OSError:report", TRUE)
               ELSE Exit("", TRUE)
  /\ pc' = "exited"
  /\ UNCHANGED <<fasta_exists, status, ending, ret, tmpfiles, completion,
                 initially_done, finished_q, collected, results, cas_type_mapping,
                 predictions, hmmer_output>>

\* search cannot raise inside main: the input file was just written, and the
\* loop catches what the tasks raise
MainNext ==
  \/ MainAnalyze
  \/ MainConstruct
  \/ SearchNext
  \/ MainClassify
  \/ MainFinish

MainSpec == MainInit /\ [][MainNext]_vars

-----------------------------------------------------------------------------
(* Properties *)

SearchOver == pc \in {"returned", "classified"}

\* the records of search's result that carry the name of task m's model
FromModel(m) ==
  LET Mine(h) == h.hmm_model = future_to_hmm[m] IN SelectSeq(results, Mine)

Failed(m) == status[m] = "done" /\ ending[m] # "ok"

\* the number of whitespace-separated fields of a line: the positions where a
\* field starts
NumFields(line) ==
  Cardinality({i \in DOMAIN line :
                 ~IsSpace(line[i]) /\ (i = 1 \/ IsSpace(line[i - 1]))})

\* a line that is no comment, not blank and has the nine fields
IsDataLine(line) ==
  /\ line # <<>> => line[1] # "#"
  /\ \E i \in DOMAIN line : ~IsSpace(line[i])
  /\ NumFields(line) >= MinFields

NumDataLines(lines) == Cardinality({i \in DOMAIN lines : IsDataLine(lines[i])})

\* C1: search never raises because of what a task did, and once it is over
\* every task has run to its end, a task whose invocation failed has no
\* record in the result and every other task has all of its hits there.
C1_FailureIsolation ==
  /\ fasta_exists => pc # "raised"
  /\ SearchOver =>
       \A m \in Tasks :
         /\ status[m] = "done"
         /\ IF Failed(m) THEN FromModel(m) = <<>>
            ELSE /\ FromModel(m) = parse_results(Output(m), future_to_hmm[m])
                 /\ Len(FromModel(m)) = NumDataLines(Output(m))

\* search has returned with one task that raised, one that failed returning
\* nothing, and one that succeeded with its hits in the result
C1_Witness ==
  /\ pc = "returned"
  /\ \E a, b, c \in Tasks :
       /\ ret[a].state = "raised"
       /\ Failed(b) /\ ret[b].state = "returned"
       /\ ending[c] = "ok" /\ FromModel(c) # <<>>

\* C2: search returns only when every submitted task is resolved and was
\* handled by the loop, and once the tasks are submitted it does return.
C2_JoinPoint ==
  /\ [](SearchOver => \A m \in Tasks : status[m] = "done" /\ m \in Range(collected))
  /\ (pc = "submitted" ~> pc = "returned")

\* search has returned after waiting for a task that was not finished when
\* the loop began
C2_Witness ==
  /\ pc = "returned"
  /\ initially_done # Tasks
  /\ \A m \in Tasks : status[m] = "done"

\* the records task m contributes: its parsed lines, none if it raised
HitsOf(m) ==
  IF ret[m].state = "returned"
  THEN parse_results(ret[m].lines, future_to_hmm[m])
  ELSE <<>>

\* the concatenation of the tasks' records in a given order of the tasks
RECURSIVE ConcatBy(_)
ConcatBy(order) ==
  IF order = <<>> THEN <<>> ELSE HitsOf(Head(order)) \o ConcatBy(Tail(order))

RECURSIVE SumDataLines(_)
SumDataLines(order) ==
  IF order = <<>> THEN 0
  ELSE (IF ending[Head(order)] = "ok" THEN NumDataLines(Output(Head(order))) ELSE 0)
       + SumDataLines(Tail(order))

C4_OnePerRecord ==
  pc = "classified" => Len(predictions) = Len(results)

\* a prediction without the place it has in the dict's order
RowSet(d) == {d[i] : i \in DOMAIN d}

\* the tasks in submission order: one of the orders they can complete in
SubmissionOrder == [i \in 1..Len(hmm_files) |-> i]

\* C5 as stated: the set of classification results does not depend on the
\* order the tasks complete in: it is the set obtained when they complete in
\* submission order.
C5_OrderIndependent ==
  pc = "classified" =>
    RowSet(predictions) =
      RowSet(classify_proteins(ConcatBy(SubmissionOrder), cas_type_mapping))

Zero == Fin(1, 0, 0)

\* C6 as stated: no record of parse_results has a negative e_value.
C6_EValueNotNegative ==
  pc = "parsed" =>
    \A i \in DOMAIN results :
      results[i].e_value.k = "nan" \/ ~Less(results[i].e_value, Zero)

\* C7 as stated: every probability lies in [0, 100].
C7_ProbabilityInRange ==
  pc = "parse_classified" =>
    \A i \in DOMAIN predictions :
      /\ ~predictions[i].probability.ninf
      /\ predictions[i].probability.milli >= 0
      /\ predictions[i].probability.milli <= 100000

\* the last record of a query name: the one whose result the dict keeps
IsLastOf(i) ==
  \A j \in DOMAIN results : j > i => results[j].query_name # results[i].query_name

\* C8: confidence is High iff e_value <= 1e-10, Medium iff
\* 1e-10 < e_value <= 1e-5 and Low otherwise, for the result of every record.
C8_ConfidenceTiers ==
  pc = "parse_classified" =>
    /\ \A i \in DOMAIN predictions :
         LET p == predictions[i] IN
         /\ p.confidence = "High" <=> FloatLeq(p.e_value, Fin(1, 1, -10))
         /\ p.confidence = "Medium" <=>
              (FloatGt(p.e_value, Fin(1, 1, -10)) /\ FloatLeq(p.e_value, Fin(1, 1, -5)))
         /\ p.confidence \in {"High", "Medium", "Low"}
    /\ \A i \in DOMAIN results :
         IsLastOf(i) =>
           \E j \in DOMAIN predictions :
             /\ predictions[j].protein_id = results[i].query_name
             /\ predictions[j].e_value = results[i].e_value

\* an e_value on the High threshold, one between the thresholds and one that
\* did not parse have been classified
C8_Witness ==
  /\ pc = "parse_classified"
  /\ \E i, j \in DOMAIN predictions :
       /\ predictions[i].e_value = Fin(1, 1, -10) /\ predictions[i].confidence = "High"
       /\ predictions[j].e_value = Fin(1, 1, -6) /\ predictions[j].confidence = "Medium"

\* the positions of the mapping whose key, lowercased, is in the text
Matches(mapping, text) ==
  {i \in DOMAIN mapping : Contains(text, Lower(mapping[i].key))}

\* C9: the family label is that of the first key of the mapping that is,
\* compared without case, a substring of the lowercased target name, and
\* "Unknown" when there is none.
C9_FirstMatchWins ==
  pc = "parse_classified" =>
    /\ \A i \in DOMAIN predictions :
         LET p == predictions[i]
             ms == Matches(cas_type_mapping, p.hmm_model)
         IN IF ms = {} THEN p.type = "Unknown"
            ELSE \E k \in ms : /\ \A k2 \in ms : k <= k2
                               /\ p.type = cas_type_mapping[k].type
    /\ \A i \in DOMAIN results :
         IsLastOf(i) =>
           \E j \in DOMAIN predictions :
             /\ predictions[j].protein_id = results[i].query_name
             /\ predictions[j].hmm_model = Lower(results[i].target_name)

\* Cas3_Cas9_fusion was classified under a mapping whose first key is Cas9
\* and whose second key is cas3: both match, the first decides
C9_Witness ==
  /\ pc = "parse_classified"
  /\ Len(cas_type_mapping) = 2
  /\ cas_type_mapping[1].key = <<"C", "a", "s", "9">>
  /\ \E i \in DOMAIN predictions :
       /\ predictions[i].hmm_model = <<"c", "a", "s", "3", "_", "c", "a", "s", "9", "_", "f", "u", "s", "i", "o", "n">>
       /\ Cardinality(Matches(cas_type_mapping, predictions[i].hmm_model)) = 2
       /\ predictions[i].type = "Type II (Cas9)"

\* C10: parse_results returns for every list of lines, with one record for
\* every line that is no comment, not blank and has nine fields or more, in
\* the order of the lines, and none for the other lines.
C10_OnePerDataLine ==
  pc = "parsed" =>
    LET Data(line) == IsDataLine(line)
        kept == SelectSeq(hmmer_output, Data)
    IN /\ Len(results) = NumDataLines(hmmer_output)
       /\ \A i \in DOMAIN results :
            /\ i <= Len(kept)
            /\ StartsWith(LStrip(kept[i]), results[i].query_name)

\* a line of eight fields gave no record, a line of exactly nine fields gave
\* one
C10_Witness ==
  /\ pc = "parsed"
  /\ Len(hmmer_output) = 2
  /\ hmmer_output[1] = ShortLine
  /\ NumFields(hmmer_output[2]) = MinFields
  /\ Len(results) = 1

\* the positions of a line where a whitespace-separated field starts
FieldStarts(line) ==
  {i \in DOMAIN line : ~IsSpace(line[i]) /\ (i = 1 \/ IsSpace(line[i - 1]))}

\* field k of a line, counted from 0: the characters from the k-th start up to
\* the next whitespace
FieldAt(line, k) ==
  LET st == CHOOSE i \in FieldStarts(line) :
              Cardinality({j \in FieldStarts(line) : j < i}) = k
      en == CHOOSE j \in st..Len(line) :
              /\ \A x \in st..j : ~IsSpace(line[x])
              /\ (j = Len(line) \/ IsSpace(line[j + 1]))
  IN SubSeq(line, st, en)

\* the numbers written in the e-value and score columns, and their values
NumberTable == <<
    [text |-> <<"1", "e", "-", "1", "2">>, value |-> Fin(1, 1, -12)],
    [text |-> <<"1", "e", "-", "1", "0">>, value |-> Fin(1, 1, -10)],
    [text |-> <<"2", "e", "-", "1", "0">>, value |-> Fin(1, 2, -10)],
    [text |-> <<"1", "e", "-", "5">>, value |-> Fin(1, 1, -5)],
    [text |-> <<"2", "e", "-", "5">>, value |-> Fin(1, 2, -5)],
    [text |-> <<"1", "e", "-", "6">>, value |-> Fin(1, 1, -6)],
    [text |-> <<"3", "e", "-", "7">>, value |-> Fin(1, 3, -7)],
    [text |-> <<"0">>, value |-> Fin(1, 0, 0)],
    [text |-> <<"1">>, value |-> Fin(1, 1, 0)],
    [text |-> <<"4">>, value |-> Fin(1, 4, 0)],
    [text |-> <<"5">>, value |-> Fin(1, 5, 0)],
    [text |-> <<"4", "2">>, value |-> Fin(1, 42, 0)],
    [text |-> <<"7", ".", "5">>, value |-> Fin(1, 75, -1)],
    [text |-> <<"2", "5", "0", ".", "3">>, value |-> Fin(1, 2503, -1)]
  >>

\* x is the value of the text, when the text is one of the table
IsNumberOf(x, text) ==
  \A r \in Range(NumberTable) : r.text = text => x = r.value

\* C11: the record of a data row has query_name = field 0, target_name =
\* field 2 (the model name when field 2 is -), e_value = field 4 and score =
\* field 5; the row protA - cas9_hmm - 1e-12 250.3 gives protA, cas9_hmm,
\* 1e-12 and 250.3, and under the default mapping its result is Type II (Cas9)
\* with confidence High.
C11_FieldsOfRow ==
  pc \in {"parsed", "parse_classified"} =>
    LET Data(line) == IsDataLine(line)
        kept == SelectSeq(hmmer_output, Data)
    IN /\ Len(results) = Len(kept)
       /\ \A i \in DOMAIN results :
            LET r == results[i]
                row == kept[i]
            IN /\ r.query_name = FieldAt(row, 0)
               /\ r.target_name = IF FieldAt(row, 2) = <<"-">> THEN ParseHmmName
                                  ELSE FieldAt(row, 2)
               /\ IsNumberOf(r.e_value, FieldAt(row, 4))
               /\ IsNumberOf(r.score, FieldAt(row, 5))
               /\ row = ExampleRow =>
                    /\ r = HitRecord(<<"p", "r", "o", "t", "A">>,
                                     <<"c", "a", "s", "9", "_", "h", "m", "m">>,
                                     Fin(1, 1, -12), Fin(1, 2503, -1), ParseHmmName)
                    /\ (pc = "parse_classified" /\ cas_type_mapping = default_mapping
                        /\ IsLastOf(i)) =>
                         \E j \in DOMAIN predictions :
                           /\ predictions[j].protein_id = r.query_name
                           /\ predictions[j].type = "Type II (Cas9)"
                           /\ predictions[j].confidence = "High"

\* a row whose field 2 is the placeholder and the row protA - cas9_hmm - 1e-12
\* 250.3 were parsed and classified under the default mapping
C11_Witness ==
  /\ pc = "parse_classified"
  /\ cas_type_mapping = default_mapping
  /\ Len(hmmer_output) = 2
  /\ IsDataLine(hmmer_output[1])
  /\ FieldAt(hmmer_output[1], 2) = <<"-">>
  /\ hmmer_output[2] = ExampleRow
  /\ Len(results) = 2
  /\ results[1].target_name = ParseHmmName
  /\ predictions[2].type = "Type II (Cas9)"
  /\ predictions[2].confidence = "High"

\* for each record of the concatenation of the tasks' records in a given
\* order, the task whose output held its line
RECURSIVE Origins(_)
Origins(order) ==
  IF order = <<>> THEN <<>>
  ELSE [i \in 1..Len(HitsOf(Head(order))) |-> Head(order)] \o Origins(Tail(order))

\* every record of search's result names the model whose invocation produced
\* its line, whatever the order the tasks completed in
HitProvenance ==
  SearchOver =>
    /\ Len(results) = Len(Origins(collected))
    /\ \A i \in DOMAIN results :
         results[i].hmm_model = HmmName(hmm_files[Origins(collected)[i]])

\* C12 as stated: every record names the model whose invocation produced its
\* line, and the result derived from a record carries that same model name.
C12_Provenance ==
  /\ HitProvenance
  /\ pc = "classified" =>
       \A i \in DOMAIN results :
         IsLastOf(i) =>
           \E j \in DOMAIN predictions :
             /\ predictions[j].protein_id = results[i].query_name
             /\ predictions[j].hmm_model = results[i].hmm_model

\* the exceptions of the configuration class: those of HMMERSearch.__init__
ConfigErrors == {"FileNotFoundError:hmm_dir", "FileNotFoundError:no_models"}

\* the exceptions that are neither of the configuration class nor come from
\* a task, a line or the mapping file
OtherErrors == {"OSError:fasta", "OSError:output", "OSError:report"}

\* the exit status the policy asks of a run that has ended: 1 without the
\* model directory or without a model in it, with no task dispatched; 1 when
\* another exception reached main; else 0 with the output file written
ExitPolicy ==
  /\ main.exit \in {<<0>>, <<1>>}
  /\ main.dir \in {"missing", "no_models"} =>
       /\ main.exit = <<1>>
       /\ main.raised \in ConfigErrors
       /\ \A m \in Tasks : status[m] = "none"
  /\ main.raised \in OtherErrors => main.exit = <<1>>
  /\ main.raised \notin ConfigErrors \cup OtherErrors =>
       main.exit = <<0>> /\ main.output_written

\* the policy for the runs whose mapping file, if it is valid JSON, holds an
\* object
ExitPolicyOfObjects ==
  (pc = "exited" /\ main.json # "array") => ExitPolicy

TempFileOnlyOfFailures ==
  \A m \in Tasks :
    status[m] = "done" =>
      (m \in tmpfiles <=> ending[m] \in {"nonzero", "undecodable", "oserror"})

\* C14 as stated: when search returns, no temporary output file created by a
\* task is left.
C14_NoTempFileLeft ==
  SearchOver => tmpfiles = {}

=============================================================================
